---- MODULE Spec2Model ----
(***************************************************************************)
(* A model of ustc_congress.py: one council (one guild channel) of the     *)
(* Votum cog, its Store entry, the interactive command handlers and the    *)
(* expiration loop.  Handlers are asyncio coroutines on one event loop:    *)
(* the code between two awaits runs atomically and is one action here; a   *)
(* handler suspended at an await is a task holding its own Council object  *)
(* (the copy Store.get_council built for it).                              *)
(***************************************************************************)
EXTENDS Integers, Sequences, FiniteSets, TLC

(***************************************************************************)
(* Bounds of the model                                                     *)
(***************************************************************************)
\* ids handed out by a council are capped: a propose needs next_motion_id <= MaxId
MaxId == 2
\* interactive handlers suspended at an await at the same time
MaxInflight == 1
\* clock ticks; each tick is one default expiration period
MaxTicks == 1
\* restarts of the process
MaxRestarts == 1
\* motions proposed in the specifications about voting
MaxVoteId == 1
\* motions proposed in the specification about expiration
MaxExpireId == 1
\* the longest majority text in the specification about parse_majority
MaxLen == 3
\* motions proposed in the specification about the order of the queue
MaxOrderId == 3

(***************************************************************************)
(* Program constants                                                       *)
(***************************************************************************)
DEFAULT_EXPIRATION_MINUTES == 1440
\* Optional[int] / Optional[str] fields holding None (ids and times are >= 1)
None == 0
\* the task id of the expiration loop; interactive handlers are 1..MaxInflight
Sched == 0

(***************************************************************************)
(* The guild: members, their roles, who holds Manage Server                *)
(***************************************************************************)
Members == {1, 2, 3, 4}
CouncilorRole == 10
\* a second role of the guild, one that no setting of the council names
SeniorRole == 11
Roles == {CouncilorRole, SeniorRole}
\* the id of a role the guild does not have (any more)
DeletedRole == 12
Admins == {4}
Choices == {"yes", "no", "abstain"}
Terminal == {"passed", "failed", "killed", "tied"}

\* rosters the guild may have: every member a councilor, or all but member 4
Rosters == { [m \in Members |-> {CouncilorRole}],
             [m \in Members |-> IF m = 4 THEN {} ELSE {CouncilorRole}] }

(***************************************************************************)
(* Small helpers                                                           *)
(***************************************************************************)
RECURSIVE SumOver(_, _)
SumOver(f, S) ==
    IF S = {} THEN 0
    ELSE LET x == CHOOSE y \in S : TRUE IN f[x] + SumOver(f, S \ {x})

\* dict.get(k, dflt)
Get(d, k, dflt) == IF k \in DOMAIN d THEN d[k] ELSE dflt
\* d[k] = v on a dict
Put(d, k, v) == [x \in DOMAIN d \cup {k} |-> IF x = k THEN v ELSE d[x]]
\* del d[k]
Del(d, k) == [x \in DOMAIN d \ {k} |-> d[x]]
EmptyDict == [x \in {} |-> 0]

Min(a, b) == IF a <= b THEN a ELSE b

(***************************************************************************)
(* Motion.parse_majority.  A majority string is a sequence of one-character *)
(* strings over the alphabet digits, ".", "/", "%", "+", "-", " " and the   *)
(* letters of "inf" and "nan"; any other character makes float() raise.     *)
(* A parsed float is [k |-> "num", n, d] (the rational n/d, d > 0),         *)
(* [k |-> "inf", n |-> sign] or [k |-> "nan"].                              *)
(***************************************************************************)
DigitVal == [c \in {"0","1","2","3","4","5","6","7","8","9"} |->
               CASE c = "0" -> 0 [] c = "1" -> 1 [] c = "2" -> 2 [] c = "3" -> 3
                 [] c = "4" -> 4 [] c = "5" -> 5 [] c = "6" -> 6 [] c = "7" -> 7
                 [] c = "8" -> 8 [] c = "9" -> 9]
IsDigit(c) == c \in DOMAIN DigitVal

Num(n, d) == [k |-> "num", n |-> n, d |-> d]
Inf(sign) == [k |-> "inf", n |-> sign, d |-> 1]
NaN == [k |-> "nan", n |-> 0, d |-> 1]
Half == Num(1, 2)
One == Num(1, 1)
Zero == Num(0, 1)

RECURSIVE LStrip(_)
LStrip(s) == IF s # <<>> /\ Head(s) = " " THEN LStrip(Tail(s)) ELSE s
RECURSIVE RStrip(_)
RStrip(s) ==
    IF s # <<>> /\ s[Len(s)] = " " THEN RStrip(SubSeq(s, 1, Len(s) - 1)) ELSE s
\* str.strip()
Strip(s) == RStrip(LStrip(s))

\* the index of the first ch in s, 0 when there is none
RECURSIVE IndexFrom(_, _, _)
IndexFrom(s, ch, i) ==
    IF i > Len(s) THEN 0 ELSE IF s[i] = ch THEN i ELSE IndexFrom(s, ch, i + 1)

\* the digits of s read as a decimal integer
RECURSIVE DigitsVal(_, _)
DigitsVal(s, acc) ==
    IF s = <<>> THEN acc ELSE DigitsVal(Tail(s), 10 * acc + DigitVal[Head(s)])
RECURSIVE Pow10(_)
Pow10(k) == IF k = 0 THEN 1 ELSE 10 * Pow10(k - 1)

\* float() of a sign and the text after it
FloatOf(sign, ip, fp) ==
    IF ip \o fp # <<>> /\ \A i \in 1..Len(ip \o fp) : IsDigit((ip \o fp)[i])
    THEN [ok |-> TRUE, v |-> Num(sign * DigitsVal(ip \o fp, 0), Pow10(Len(fp)))]
    ELSE [ok |-> FALSE, v |-> NaN]

FloatBody(sign, body, dot) ==
    IF body = <<"i", "n", "f">> THEN [ok |-> TRUE, v |-> Inf(sign)]
    ELSE IF body = <<"n", "a", "n">> THEN [ok |-> TRUE, v |-> NaN]
    ELSE IF dot = 0 THEN FloatOf(sign, body, <<>>)
    ELSE FloatOf(sign, SubSeq(body, 1, dot - 1), SubSeq(body, dot + 1, Len(body)))

FloatStripped(s) ==
    IF s # <<>> /\ Head(s) = "-" THEN FloatBody(0 - 1, Tail(s), IndexFrom(Tail(s), ".", 1))
    ELSE IF s # <<>> /\ Head(s) = "+" THEN FloatBody(1, Tail(s), IndexFrom(Tail(s), ".", 1))
    ELSE FloatBody(1, s, IndexFrom(s, ".", 1))

\* float(s): [ok |-> FALSE] stands for ValueError
PyFloat(s) == FloatStripped(Strip(s))

\* bool(x) of a float: 0.0 and -0.0 are falsy, nan and inf are truthy
Truthy(x) == ~(x.k = "num" /\ x.n = 0)

\* x / y on floats, y not zero
FDiv(x, y) ==
    IF x.k = "nan" \/ y.k = "nan" THEN NaN
    ELSE IF x.k = "inf"
         THEN IF y.k = "inf" THEN NaN
              ELSE Inf(IF y.n < 0 THEN 0 - x.n ELSE x.n)
    ELSE IF y.k = "inf" THEN Zero
    ELSE IF y.n < 0 THEN Num((0 - x.n) * y.d, x.d * (0 - y.n))
    ELSE Num(x.n * y.d, x.d * y.n)

\* max(0.0, min(1.0, x)): min(1.0, nan) is 1.0, as nan < 1.0 is false
Clamp(x) ==
    IF x.k = "nan" THEN One
    ELSE IF x.k = "inf" THEN (IF x.n > 0 THEN One ELSE Zero)
    ELSE IF x.n > x.d THEN One
    ELSE IF x.n < 0 THEN Zero
    ELSE x

\* the three shapes of a majority: "p%", "a/b", a decimal
Percent(f) == IF f.ok THEN Clamp(FDiv(f.v, Num(100, 1))) ELSE Half
Fraction(num, den) ==
    IF ~(num.ok /\ den.ok) THEN Half
    ELSE IF Truthy(den.v) THEN Clamp(FDiv(num.v, den.v))
    ELSE One
Decimal(f) == IF f.ok THEN Clamp(f.v) ELSE Half

ParseStripped(s, slash) ==
    IF s # <<>> /\ s[Len(s)] = "%" THEN Percent(PyFloat(SubSeq(s, 1, Len(s) - 1)))
    ELSE IF slash # 0
    THEN Fraction(PyFloat(Strip(SubSeq(s, 1, slash - 1))),
                  PyFloat(Strip(SubSeq(s, slash + 1, Len(s)))))
    ELSE Decimal(PyFloat(s))

parse_majority(s) == ParseStripped(Strip(s), IndexFrom(Strip(s), "/", 1))

(***************************************************************************)
(* Float comparisons of Council.maybe_finish.  Python floats are IEEE-754   *)
(* doubles: a quotient of two small integers is the exact quotient rounded  *)
(* to 53 significant bits, to nearest, ties to even.  Rounding is monotone  *)
(* and two different rationals with small denominators never round to the  *)
(* same double, so only equal rationals need the roundings themselves; the  *)
(* rounding of p/q is found from (p * 2^s) mod q, computed without large    *)
(* numbers.                                                                 *)
(***************************************************************************)
\* for 0 < p/q < 1: the k >= 1 with 2^-k <= p/q < 2^-(k-1)
RECURSIVE Binade(_, _)
Binade(p, q) == IF 2 * p >= q THEN 1 ELSE 1 + Binade(2 * p, q)

\* (2^s) mod q
RECURSIVE PowMod2(_, _)
PowMod2(s, q) == IF s = 0 THEN 1 % q ELSE (2 * PowMod2(s - 1, q)) % q

\* (p * 2^s) mod q
ScaledMod(p, s, q) == ((p % q) * PowMod2(s, q)) % q

\* the integer nearest to num/den (den > 0), a tie going to the neighbour
\* that has the parity of `even` (0 or 1)
RoundNearest(num, den, even) ==
    LET fl == num \div den
        rem == num % den
    IN  IF 2 * rem < den THEN fl
        ELSE IF 2 * rem > den THEN fl + 1
        ELSE IF (fl % 2) = even THEN fl ELSE fl + 1

\* the double p/q for 0 < p/q < 1, as its distance from p/q:
\* s: the unit of the double is 2^-s; r/q: the fraction lost; up: 1 when the
\* division rounds up; odd: the parity of the mantissa before rounding
RoundingOf(q, s, r, odd) ==
    [s |-> s, r |-> r, odd |-> odd,
     up |-> IF 2 * r > q \/ (2 * r = q /\ odd = 1) THEN 1 ELSE 0]
RoundingAt(p, q, s) ==
    RoundingOf(q, s, ScaledMod(p, s, q),
               (ScaledMod(p, s, 2 * q) - ScaledMod(p, s, q)) \div q)
Rounding(p, q) == RoundingAt(p, q, 52 + Binade(p, q))

\* FloatGE with the boundary left out: > where the code has >=
FloatGT(y, e, t) == y * t.d > t.n * e

\* yes / eligible >= threshold, threshold the double of t.n / t.d
FloatGE(y, e, t) == y * t.d >= t.n * e

\* double(n/e) >= 1 - double(t) when n/e = 1 - t.n/t.d, both in (0, 1), given
\* the roundings T of t and Z of n/e.  errT is double(t) - t in units of 2^-T.s,
\* times t.d; the right side in units of 2^-Z.s, less the mantissa of n/e
\* before rounding, is the rational xn/xd, and it is rounded in its turn
CloseGE(e, t, T, Z, errT) ==
    IF T.r = 0 THEN TRUE
    ELSE IF Z.s >= T.s
    THEN Z.up >= RoundNearest(Z.r * t.d - errT * (2 ^ (Z.s - T.s)) * e,
                              e * t.d, Z.odd)
    ELSE Z.up >= RoundNearest(Z.r * t.d * (2 ^ (T.s - Z.s)) - errT * e,
                              e * t.d * (2 ^ (T.s - Z.s)), Z.odd)

\* no / eligible >= (1 - threshold): the subtraction is made on the double of
\* the threshold and rounded again, so at no/eligible = 1 - t the two sides
\* are the roundings of no/eligible and of 1 - double(t)
FloatGEOneMinus(n, e, t) ==
    IF n * t.d # (t.d - t.n) * e THEN n * t.d > (t.d - t.n) * e
    ELSE IF n = 0 \/ t.n = 0 THEN TRUE
    ELSE CloseGE(e, t, Rounding(t.n, t.d), Rounding(n, e),
                 Rounding(t.n, t.d).up * t.d - Rounding(t.n, t.d).r)

(***************************************************************************)
(* State                                                                   *)
(***************************************************************************)
VARIABLES
    store,    \* Store.data["councils"][key]: the council as get_council sees it
    disk,     \* the council in the JSON file, as Store.save last wrote it
    config,   \* the council's config dict: one object shared by Store.data and
              \* by every Council built from it (from_dict and to_dict pass it on)
    guild,    \* member id -> the roles the member holds
    now,      \* utcnow(), in minutes
    tasks,    \* task id -> the coroutine suspended at an await, with its Council
    issued,   \* history: id -> how often a created motion got that id (up to 2)
    resolved, \* history: id -> how often a motion of that id left active (up to 2)
    restarts, \* history: how often the process has restarted
    last,     \* the handler step taken last and how it answered
    other     \* Store.data["councils"][key2]: the council of a second channel of
              \* the guild, the one a pass of the expiration loop reaches next

vars == <<store, disk, config, guild, now, tasks, issued, resolved, restarts, last,
          other>>

(***************************************************************************)
(* Motion and Council                                                      *)
(***************************************************************************)
\* dict keys of Motion.votes and Motion.reasons: interaction.user.id is an int,
\* a key read back from JSON is the str of it
IntKey(u) == <<"int", u>>
StrKey(u) == <<"str", u>>

Motion(id, title, author, maj, exp) ==
    [id |-> id, title |-> title, author_id |-> author, status |-> "active",
     majority |-> maj, votes |-> EmptyDict, reasons |-> EmptyDict,
     finished_at |-> None, thread_id |-> None, live_message_id |-> None,
     expires_at |-> exp]

Council ==
    [motions |-> <<>>, current_motion |-> <<>>, motion_queue |-> <<>>,
     next_motion_id |-> 1, vote_weights |-> EmptyDict,
     proposed_count |-> EmptyDict, voted_count |-> EmptyDict,
     miss_streak |-> EmptyDict, live_message_id |-> None]

\* guild.get_member(uid): members are looked up by int id
get_member(g, k) == k[1] = "int" /\ k[2] \in DOMAIN g
\* guild.get_role(rid)
get_role(rid) == rid \in Roles
\* manage_guild granted to every member
AnyoneManages(u) == u \in Members

\* member.guild_permissions.manage_guild
manage_guild(u) == u \in Admins

_get_role_id(cfg, key) == Get(cfg, key, None)

\* vote_weight_for without the roles: the member's own override, else 1
VoteWeightWithoutRoles(c, g, u) ==
    IF u \in DOMAIN c.vote_weights THEN c.vote_weights[u] ELSE 1

vote_weight_for(c, g, u) ==
    IF u \in DOMAIN c.vote_weights THEN c.vote_weights[u]
    ELSE LET role_sum == SumOver(c.vote_weights, g[u] \cap DOMAIN c.vote_weights)
         IN  IF role_sum > 0 THEN role_sum ELSE 1

tallies(m, c, g) ==
    LET counted(ch) == {k \in DOMAIN m.votes : get_member(g, k) /\ m.votes[k] = ch}
        w == [k \in {j \in DOMAIN m.votes : get_member(g, j)} |->
                 vote_weight_for(c, g, k[2])]
    IN  [yes |-> SumOver(w, counted("yes")),
         no |-> SumOver(w, counted("no")),
         abstain |-> SumOver(w, counted("abstain"))]

majority_threshold(m) == parse_majority(m.majority)

\* the members maybe_finish counts
EligibleFinish(cfg, g) ==
    LET rid == _get_role_id(cfg, "councilor.role")
    IN  {u \in DOMAIN g : IF rid # None THEN get_role(rid) /\ rid \in g[u]
                                      ELSE TRUE}

\* Finish without the assignment to status
FinishKeepsStatus(m, outcome, t) == [m EXCEPT !.finished_at = t]

\* Motion leaving active: status and finished_at
Finish(m, outcome, t) == [m EXCEPT !.status = outcome, !.finished_at = t]

\* eligible = 0 becomes 1
Floor1(n) == IF n = 0 THEN 1 ELSE n

\* Decide without the look at majority.reached.ends
DecideIgnoresSwitch(t, eligible, threshold, end_on_reach) ==
    IF FloatGE(t.yes, eligible, threshold) THEN "passed"
    ELSE IF FloatGEOneMinus(t.no, eligible, threshold) THEN "failed"
    ELSE ""

\* the two tests of maybe_finish: "passed", "failed" or "" (stays active)
Decide(t, eligible, threshold, end_on_reach) ==
    IF ~end_on_reach THEN ""
    ELSE IF FloatGE(t.yes, eligible, threshold) THEN "passed"
    ELSE IF FloatGEOneMinus(t.no, eligible, threshold) THEN "failed"
    ELSE ""

EarlyOutcome(m, c, cfg, g) ==
    Decide(tallies(m, c, g), Floor1(Cardinality(EligibleFinish(cfg, g))),
           majority_threshold(m), Get(cfg, "majority.reached.ends", TRUE))

\* c with its current motion archived under outcome
Archive(c, outcome, t) ==
    [c EXCEPT !.motions = Append(@, Finish(c.current_motion[1], outcome, t)),
              !.current_motion = <<>>]

\* maybe_finish, given the outcome o of its tests
FinishIf(c, o, t) ==
    IF o = "" THEN [finished |-> "", c |-> c]
    ELSE [finished |-> o, c |-> Archive(c, o, t)]

maybe_finish(c, cfg, g, t) ==
    IF c.current_motion = <<>> THEN [finished |-> "", c |-> c]
    ELSE FinishIf(c, EarlyOutcome(c.current_motion[1], c, cfg, g), t)

(***************************************************************************)
(* Persistence: Council.to_dict, json.dump, json.load, Council.from_dict   *)
(***************************************************************************)
\* a votes/reasons dict after json.dump and json.load: every key is a str; of
\* two keys that dump to the same str the one inserted later (the int) wins
JsonDict(d) ==
    LET uids == {k[2] : k \in DOMAIN d}
    IN  [k \in {StrKey(u) : u \in uids} |->
            IF IntKey(k[2]) \in DOMAIN d THEN d[IntKey(k[2])] ELSE d[k]]

JsonMotion(m) ==
    [m EXCEPT !.votes = JsonDict(m.votes), !.reasons = JsonDict(m.reasons)]

JsonSeq(ms) == [i \in 1..Len(ms) |-> JsonMotion(ms[i])]

\* the Council that from_dict builds from what to_dict wrote to the file: the
\* stats dicts get their int keys back, the motions' dicts do not
JsonCouncil(c) ==
    [c EXCEPT !.motions = JsonSeq(c.motions),
              !.current_motion = JsonSeq(c.current_motion),
              !.motion_queue = JsonSeq(c.motion_queue)]

\* the file after Store.put_council(c)
Saved(c, cfg) == [c |-> JsonCouncil(c), config |-> cfg]

(***************************************************************************)
(* Inputs of the handlers                                                  *)
(***************************************************************************)
\* a title <<0, s>> is the text s; <<n, s>> with n > 0 is the text
\* "Motion #n - s", which a user can type as well
NoTitle == <<0, "">>
LongTitle == <<0, "LONG">>
TitleLen(t) == IF t = LongTitle THEN 5001 ELSE 80
AutoTitle(id, text) == <<id, text>>

\* motion texts: none given, or "x"
Texts == {"", "x"}
\* titles a proposer supplies: none, or the text "Motion #2 - x"
TitleInputs == {NoTitle, <<2, "x">>}
NoMajority == <<>>
MajorityInputs == {NoMajority, <<"2", "/", "3">>}

(***************************************************************************)
(* Votum helpers                                                           *)
(***************************************************************************)
Range(f) == {f[x] : x \in DOMAIN f}

\* _title_unique without the archived motions
TitleUniqueSkipsArchive(c, title) ==
    title \notin {m.title : m \in Range(c.current_motion) \cup Range(c.motion_queue)}

_title_unique(c, title) ==
    title \notin {m.title : m \in Range(c.motions) \cup Range(c.current_motion)
                                    \cup Range(c.motion_queue)}

\* MayVote without the look at the councilor role
AnyMemberVotes(cfg, g, u) == u \in DOMAIN g

\* the voters _cast lets in
MayVote(cfg, g, u) ==
    LET councilor_id == _get_role_id(cfg, "councilor.role")
    IN  u \in DOMAIN g /\ councilor_id # None /\ get_role(councilor_id)
        /\ councilor_id \in g[u]

\* the members whose miss streak _resolve_post_actions updates
EligibleStreak(cfg, g) ==
    LET rid == _get_role_id(cfg, "councilor.role")
    IN  {u \in DOMAIN g : ~(rid # None /\ get_role(rid) /\ rid \notin g[u])}

\* StreakUpdate without the exemption of killed motions
StreakUpdateKilledToo(c, cfg, g, outcome) ==
    [c EXCEPT !.miss_streak =
        [u \in DOMAIN c.miss_streak \cup EligibleStreak(cfg, g) |->
            IF u \notin EligibleStreak(cfg, g) THEN c.miss_streak[u]
            ELSE IF IntKey(u) \in DOMAIN c.motions[Len(c.motions)].votes THEN 0
            ELSE Get(c.miss_streak, u, 0) + 1]]

\* StreakUpdate without the look at the votes: every eligible member misses
StreakUpdateIgnoresVotes(c, cfg, g, outcome) ==
    IF outcome = "killed" THEN c
    ELSE [c EXCEPT !.miss_streak =
            [u \in DOMAIN c.miss_streak \cup EligibleStreak(cfg, g) |->
                IF u \notin EligibleStreak(cfg, g) THEN c.miss_streak[u]
                ELSE Get(c.miss_streak, u, 0) + 1]]

\* _resolve_post_actions up to its first await: the miss streaks
StreakUpdate(c, cfg, g, outcome) ==
    LET m == c.motions[Len(c.motions)]
        elig == EligibleStreak(cfg, g)
    IN  IF outcome = "killed" THEN c
        ELSE [c EXCEPT !.miss_streak =
                [u \in DOMAIN c.miss_streak \cup elig |->
                    IF u \notin elig THEN c.miss_streak[u]
                    ELSE IF IntKey(u) \in DOMAIN m.votes THEN 0
                    ELSE Get(c.miss_streak, u, 0) + 1]]

\* the expiration of a motion created at t
ExpiresAt(cfg, t) ==
    LET minutes == Get(cfg, "motion.expiration.minutes", DEFAULT_EXPIRATION_MINUTES)
    IN  IF minutes > 0 THEN t + minutes ELSE None

\* the majority string of a new motion
MajorityOf(cfg, majority) ==
    Strip(IF majority # NoMajority THEN majority
          ELSE Get(cfg, "majority.default", <<"1", "/", "2">>))

\* /motion action:new up to its put_council or its early return:
\* err, the Council object as the handler leaves it, and whether it was put
propose(c, cfg, g, user, title, text, majority, t) ==
    LET prop_role_id == _get_role_id(cfg, "propose.role")
        final_title == IF title # NoTitle THEN title
                       ELSE AutoTitle(c.next_motion_id, text)
        m == Motion(c.next_motion_id, final_title, user,
                    MajorityOf(cfg, majority), ExpiresAt(cfg, t))
        c1 == [c EXCEPT !.next_motion_id = @ + 1]
        c2 == [c1 EXCEPT !.proposed_count = Put(@, user, Get(@, user, 0) + 1)]
    IN  IF Get(cfg, "councilor.motion.disable", FALSE) /\ ~manage_guild(user)
        THEN [err |-> "CreationDisabled", c |-> c, put |-> FALSE]
        ELSE IF prop_role_id # None /\ get_role(prop_role_id)
                /\ prop_role_id \notin g[user] /\ ~manage_guild(user)
        THEN [err |-> "Unauthorized", c |-> c, put |-> FALSE]
        ELSE IF text = ""
        THEN [err |-> "MissingText", c |-> c, put |-> FALSE]
        ELSE IF title # NoTitle /\ TitleLen(title) > 5000
        THEN [err |-> "TitleTooLong", c |-> c, put |-> FALSE]
        ELSE IF title # NoTitle /\ ~_title_unique(c, title)
        THEN [err |-> "TitleConflict", c |-> c, put |-> FALSE]
        ELSE IF c.current_motion # <<>> /\ ~Get(cfg, "motion.queue", FALSE)
        THEN [err |-> "QueueDisabled", c |-> c1, put |-> FALSE]
        ELSE IF c.current_motion # <<>>
        THEN [err |-> "queued", put |-> TRUE,
              c |-> [c2 EXCEPT !.motion_queue = Append(@, m)]]
        ELSE [err |-> "created", put |-> TRUE,
              c |-> [c2 EXCEPT !.current_motion = <<m>>]]

\* _cast up to maybe_finish: err and the Council with the vote recorded
cast(c, cfg, g, user, choice, reason) ==
    LET uid == IntKey(user)
        m == c.current_motion[1]
        first_vote_for_user == uid \notin DOMAIN m.votes
        m1 == [m EXCEPT !.votes = Put(@, uid, choice),
                        !.reasons = IF reason # "" THEN Put(@, uid, reason) ELSE @]
        c1 == [c EXCEPT !.current_motion = <<m1>>,
                        !.miss_streak = Put(@, user, 0)]
        c2 == IF first_vote_for_user
              THEN [c1 EXCEPT !.voted_count = Put(@, user, Get(@, user, 0) + 1)]
              ELSE c1
    IN  IF c.current_motion = <<>> THEN [err |-> "NoActiveMotion", c |-> c]
        ELSE IF ~MayVote(cfg, g, user) THEN [err |-> "Unauthorized", c |-> c]
        ELSE IF Get(cfg, "reason.required." \o choice, FALSE) /\ reason = ""
        THEN [err |-> "ReasonRequired", c |-> c]
        ELSE [err |-> "ok", c |-> c2]

\* ExpiredOutcome with a tie counted as passed: >= where the code has >
ExpiredOutcomeTiePasses(m, c, g) ==
    LET t == tallies(m, c, g)
    IN  IF t.yes >= t.no THEN "passed" ELSE "failed"

\* ExpiredOutcome that names the expiration itself
ExpiredOutcomeExpired(m, c, g) == "expired"

\* the outcome the expiration loop gives a motion that has expired
ExpiredOutcome(m, c, g) ==
    LET t == tallies(m, c, g)
    IN  IF t.yes > t.no THEN "passed" ELSE IF t.no > t.yes THEN "failed" ELSE "tied"

\* Expired with the moment of expiration itself left out
ExpiredStrictly(c, t) ==
    /\ c.current_motion # <<>>
    /\ c.current_motion[1].expires_at # None
    /\ t > c.current_motion[1].expires_at

\* Expired without the look at the time
ExpiredIgnoresTime(c, t) == c.current_motion # <<>>

\* the current motion has an expiration and it has passed
Expired(c, t) ==
    /\ c.current_motion # <<>>
    /\ c.current_motion[1].expires_at # None
    /\ ~(t < c.current_motion[1].expires_at)

\* Promote with the expiration counted anew from the moment of promotion
PromoteRestartsClock(c) ==
    [c EXCEPT !.current_motion =
                  <<[Head(c.motion_queue) EXCEPT !.expires_at = ExpiresAt(config, now)]>>,
              !.motion_queue = Tail(@)]

\* Promote that leaves the promoted motion in the queue
PromoteKeepsQueue(c) == [c EXCEPT !.current_motion = <<Head(c.motion_queue)>>]

\* the queue head becomes the current motion
Promote(c) ==
    [c EXCEPT !.current_motion = <<Head(c.motion_queue)>>,
              !.motion_queue = Tail(@)]

\* the live message's id lands on the motion and on the council
SetLive(c, msg) ==
    [c EXCEPT !.current_motion[1].live_message_id = msg, !.live_message_id = msg]

SetThread(c, th) == [c EXCEPT !.current_motion[1].thread_id = th]

\* the value /config stores for a raw value.  The raw values are "true",
\* "false", the digits "10", "0" and "10081", and for majority.default a majority text
\* (a sequence of characters), which is none of these and is stored as it is
ConfigValue(key, raw) ==
    IF key = "majority.default" THEN raw
    ELSE IF raw = "true" THEN TRUE
    ELSE IF raw = "false" THEN FALSE
    ELSE IF raw = "10" THEN 10
    ELSE IF raw = "0" THEN 0
    ELSE IF raw = "10081" THEN 10081
    ELSE IF raw = "12" THEN DeletedRole
    ELSE raw

\* /config refuses motion.expiration.minutes outside 1..10080 (its raw values
\* here are digits)
MinutesRefused(key, raw) ==
    key = "motion.expiration.minutes" /\ ConfigValue(key, raw) \notin 1..10080

(***************************************************************************)
(* Tasks: a coroutine suspended at an await.  pc names the await:          *)
(*   post_send  _resolve_post_actions, sending the result                  *)
(*   live_send  _post_live_and_thread, sending the live message            *)
(*   live_edit  _post_live_and_thread, fetching and editing the live one   *)
(*   thread     _post_live_and_thread, pinning and creating the thread     *)
(*   other_send _resolve_post_actions for the second council, sending      *)
(***************************************************************************)
Tasks == 0..MaxInflight
Task(pc, c, update_only) == [pc |-> pc, c |-> c, update_only |-> update_only]
Idle == Task("idle", Council, FALSE)
FreeSlots == {t \in 1..MaxInflight : tasks[t].pc = "idle"}
Slot == CHOOSE t \in FreeSlots : \A u \in FreeSlots : t <= u

\* Store.put_council(c): Store.data and the file
put_council(c, cfg) == store' = c /\ disk' = Saved(c, cfg)

Count(h, id) == [h EXCEPT ![id] = Min(@ + 1, 2)]
\* what the handler answered; only Restart changes restarts
Answer(op, err) ==
    /\ last' = [op |-> op, err |-> err]
    /\ restarts' = IF op = "restart" THEN restarts + 1 ELSE restarts

\* a council fresh from /council action:create and then configured with cfg by
\* /config, in a guild whose roster is one of rosters; second is the council
\* of another channel of the guild
InitCouncils(cfg, rosters, second) ==
    /\ store = Council
    /\ disk = Saved(Council, cfg)
    /\ config = cfg
    /\ guild \in rosters
    /\ now = 1
    /\ tasks = [t \in Tasks |-> Idle]
    /\ issued = [i \in 1..(MaxId + MaxOrderId) |-> 0]
    /\ resolved = [i \in 1..(MaxId + MaxOrderId) |-> 0]
    /\ restarts = 0
    /\ last = [op |-> "council", err |-> "created"]
    /\ other = second

\* the same with a second council that has no motion yet
InitWith(cfg, rosters) == InitCouncils(cfg, rosters, Council)

\* the councilor role is configured
RoleSet == [k \in {"councilor.role"} |-> CouncilorRole]

\* the expiration loop has resolved the second council's motion: the archived
\* motion is in Store.data and the loop waits for the result to be sent
OtherResolved(c2) ==
    /\ other' = c2
    /\ tasks' = [tasks EXCEPT ![Sched] = Task("other_send", c2, FALSE)]

\* the pass of the expiration loop goes on to the second council; after it
\* the pass is over and the loop sleeps
SweepOther ==
    IF Expired(other, now)
    THEN OtherResolved(StreakUpdate(
            Archive(other, ExpiredOutcome(other.current_motion[1], other, guild), now),
            RoleSet, guild, ExpiredOutcome(other.current_motion[1], other, guild)))
    ELSE tasks' = [tasks EXCEPT ![Sched] = Idle] /\ UNCHANGED other

\* the coroutine of task t has ended, by returning (ok) or by an exception.
\* An interactive handler is over.  The expiration loop, after a resolve that
\* returned, goes on to the next council of its pass; an exception leaves the
\* for loops for the except clause around them, and the pass is over
Done(t, ok) ==
    IF t = Sched /\ ok THEN SweepOther
    ELSE tasks' = [tasks EXCEPT ![t] = Idle] /\ UNCHANGED other

\* Propose with the Council object of a refused propose saved all the same
ProposeSavesRefused(user, title, text, majority) ==
    LET r == propose(store, config, guild, user, title, text, majority, now)
    IN  /\ Answer("propose", r.err)
        /\ UNCHANGED <<config, guild, now, resolved, other>>
        /\ IF ~r.put THEN put_council(r.c, config) /\ UNCHANGED <<tasks, issued>>
           ELSE /\ put_council(r.c, config)
                /\ issued' = Count(issued, store.next_motion_id)
                /\ IF r.err = "queued" THEN UNCHANGED tasks
                   ELSE /\ FreeSlots # {}
                        /\ tasks' = [tasks EXCEPT ![Slot] = Task("live_send", r.c, FALSE)]

\* /motion action:new
Propose(user, title, text, majority) ==
    LET r == propose(store, config, guild, user, title, text, majority, now)
    IN  /\ Answer("propose", r.err)
        /\ UNCHANGED <<config, guild, now, resolved, other>>
        /\ IF ~r.put THEN UNCHANGED <<store, disk, tasks, issued>>
           ELSE /\ put_council(r.c, config)
                /\ issued' = Count(issued, store.next_motion_id)
                /\ IF r.err = "queued" THEN UNCHANGED tasks
                   ELSE /\ FreeSlots # {}
                        /\ tasks' = [tasks EXCEPT ![Slot] = Task("live_send", r.c, FALSE)]

\* _cast after a vote that ended the motion: c was put, then the miss streaks
\* change on the dicts Store.data now shares with c, without a save
CastFinished(c, c2, id) ==
    /\ disk' = Saved(c, config)
    /\ store' = c2
    /\ resolved' = Count(resolved, id)
    /\ tasks' = [tasks EXCEPT ![Slot] = Task("post_send", c2, FALSE)]

\* _cast after a vote that left the motion active: the live message is edited,
\* or sent when the motion has none
CastRecorded(c) ==
    /\ disk' = Saved(c, config)
    /\ store' = c
    /\ UNCHANGED resolved
    /\ tasks' = [tasks EXCEPT ![Slot] =
          IF c.current_motion[1].live_message_id # None
          THEN Task("live_edit", c, TRUE) ELSE Task("live_send", c, TRUE)]

CastPut(f) ==
    IF f.finished # ""
    THEN CastFinished(f.c, StreakUpdate(f.c, config, guild, f.finished),
                      store.current_motion[1].id)
    ELSE CastRecorded(f.c)

CastAnswer(r) ==
    /\ Answer("cast", r.err)
    /\ UNCHANGED <<config, guild, now, issued, other>>
    /\ IF r.err # "ok" THEN UNCHANGED <<store, disk, tasks, resolved>>
       ELSE FreeSlots # {} /\ CastPut(maybe_finish(r.c, config, guild, now))

\* /yes, /no, /abstain
Cast(user, choice, reason) == CastAnswer(cast(store, config, guild, user, choice, reason))

\* _resolve_and_announce up to the first await of _resolve_post_actions, run by
\* task t: the store gets the archived motion, then the miss streaks change on
\* the dicts Store.data now shares with c, without a save
Resolve(t, outcome) ==
    LET c1 == Archive(store, outcome, now)
        c2 == StreakUpdate(c1, config, guild, outcome)
    IN  /\ disk' = Saved(c1, config)
        /\ store' = c2
        /\ resolved' = Count(resolved, store.current_motion[1].id)
        /\ tasks' = [tasks EXCEPT ![t] = Task("post_send", c2, FALSE)]

\* /motion action:kill
Kill(user) ==
    LET err == IF store.current_motion = <<>> THEN "NoActiveMotion"
               ELSE IF ~(user = store.current_motion[1].author_id \/ manage_guild(user))
               THEN "Unauthorized" ELSE "ok"
    IN  /\ Answer("kill", err)
        /\ UNCHANGED <<config, guild, now, issued, other>>
        /\ IF err # "ok" THEN UNCHANGED <<store, disk, tasks, resolved>>
           ELSE FreeSlots # {} /\ Resolve(Slot, "killed")

\* /motion_set_title
SetTitle(title) ==
    LET err == IF store.current_motion = <<>> THEN "NoActiveMotion"
               ELSE IF TitleLen(title) > 5000 THEN "TitleTooLong"
               ELSE IF ~_title_unique(store, title) THEN "TitleConflict" ELSE "ok"
    IN  /\ Answer("set_title", err)
        /\ UNCHANGED <<config, guild, now, tasks, issued, resolved, other>>
        /\ IF err # "ok" THEN UNCHANGED <<store, disk>>
           ELSE put_council([store EXCEPT !.current_motion[1].title = title], config)

\* /config
Config(user, key, raw) ==
    /\ UNCHANGED <<guild, now, tasks, issued, resolved, other>>
    /\ IF ~manage_guild(user)
       THEN Answer("config", "NotAdmin") /\ UNCHANGED <<store, disk, config>>
       ELSE IF raw = "$remove"
       THEN /\ Answer("config", "removed")
            /\ IF key \in DOMAIN config
               THEN config' = Del(config, key) /\ put_council(store, config')
               ELSE UNCHANGED <<store, disk, config>>
       ELSE IF MinutesRefused(key, raw)
       THEN Answer("config", "BadMinutes") /\ UNCHANGED <<store, disk, config>>
       ELSE /\ Answer("config", "set")
            /\ config' = Put(config, key, ConfigValue(key, raw))
            /\ put_council(store, config')

\* SetWeight that runs maybe_finish on the council before it is put
SetWeightThenFinish(user, target, weight) ==
    LET err == IF ~manage_guild(user) THEN "NotAdmin"
               ELSE IF weight < 1 THEN "BadWeight" ELSE "ok"
    IN  /\ Answer("setweight", err)
        /\ UNCHANGED <<config, guild, now, tasks, issued, resolved, other>>
        /\ IF err # "ok" THEN UNCHANGED <<store, disk>>
           ELSE put_council(maybe_finish([store EXCEPT !.vote_weights =
                                              Put(@, target, weight)],
                                         config, guild, now).c, config)

\* /setweight
SetWeight(user, target, weight) ==
    LET err == IF ~manage_guild(user) THEN "NotAdmin"
               ELSE IF weight < 1 THEN "BadWeight" ELSE "ok"
    IN  /\ Answer("setweight", err)
        /\ UNCHANGED <<config, guild, now, tasks, issued, resolved, other>>
        /\ IF err # "ok" THEN UNCHANGED <<store, disk>>
           ELSE put_council([store EXCEPT !.vote_weights = Put(@, target, weight)],
                            config)

\* one pass of _expiration_loop over the council
Sweep ==
    /\ tasks[Sched].pc = "idle"
    /\ UNCHANGED <<config, guild, now, issued>>
    /\ IF Expired(store, now)
       THEN /\ Answer("sweep", "resolved")
            /\ Resolve(Sched, ExpiredOutcome(store.current_motion[1], store, guild))
            /\ UNCHANGED other
       ELSE /\ Answer("sweep", "skipped")
            /\ UNCHANGED <<store, disk, resolved>>
            /\ SweepOther

\* the result went out (ok) or the send raised: _resolve_post_actions goes on to
\* promote the queue head and post its live message, or the exception ends it
ResumePostSend(t, ok) ==
    /\ tasks[t].pc = "post_send"
    /\ UNCHANGED <<config, guild, now, issued, resolved>>
    /\ LET c == tasks[t].c
       IN  IF ok /\ Get(config, "motion.queue", FALSE) /\ c.motion_queue # <<>>
           THEN /\ Answer("post_send", "promoted")
                /\ put_council(Promote(c), config)
                /\ tasks' = [tasks EXCEPT ![t] = Task("live_send", Promote(c), FALSE)]
                /\ UNCHANGED other
           ELSE /\ Answer("post_send", IF ok THEN "done" ELSE "raised")
                /\ Done(t, ok)
                /\ UNCHANGED <<store, disk>>

\* channel.send of the live message returned (ok) or raised
ResumeLiveSend(t, ok) ==
    /\ tasks[t].pc = "live_send"
    /\ UNCHANGED <<config, guild, now, issued, resolved>>
    /\ LET c == SetLive(tasks[t].c, 1)
       IN  IF ok
           THEN /\ Answer("live_send", "posted")
                /\ put_council(c, config)
                /\ IF ~tasks[t].update_only /\ c.current_motion[1].thread_id = None
                   THEN /\ tasks' = [tasks EXCEPT ![t] = Task("thread", c, FALSE)]
                        /\ UNCHANGED other
                   ELSE Done(t, TRUE)
           ELSE /\ Answer("live_send", "raised")
                /\ Done(t, FALSE)
                /\ UNCHANGED <<store, disk>>

\* msg.create_thread returned (ok) or raised
ResumeThread(t, ok) ==
    /\ tasks[t].pc = "thread"
    /\ UNCHANGED <<config, guild, now, issued, resolved>>
    /\ Done(t, TRUE)
    /\ IF ok
       THEN Answer("thread", "created") /\ put_council(SetThread(tasks[t].c, 1), config)
       ELSE Answer("thread", "raised") /\ UNCHANGED <<store, disk>>

\* fetch_message and msg.edit returned (ok), or raised and the handler goes on
\* to send a new live message
ResumeLiveEdit(t, ok) ==
    /\ tasks[t].pc = "live_edit"
    /\ UNCHANGED <<store, disk, config, guild, now, issued, resolved, other>>
    /\ Answer("live_edit", IF ok THEN "edited" ELSE "raised")
    /\ tasks' = [tasks EXCEPT ![t] =
          IF ok THEN Idle ELSE Task("live_send", tasks[t].c, TRUE)]

\* the result of the second council went out (ok) or the send raised: either
\* way the pass of the expiration loop is over
ResumeOtherSend(ok) ==
    /\ tasks[Sched].pc = "other_send"
    /\ Answer("other_send", IF ok THEN "done" ELSE "raised")
    /\ tasks' = [tasks EXCEPT ![Sched] = Idle]
    /\ UNCHANGED <<store, disk, config, guild, now, issued, resolved, other>>

\* what Store.data["councils"] and the file hold for a channel whose council
\* was deleted: no entry, and get_council returns None
Absent == [deleted |-> TRUE]

\* /council action:remove
CouncilRemove(user) ==
    LET err == IF ~manage_guild(user) THEN "NotAdmin"
               ELSE IF store = Absent THEN "NoCouncil" ELSE "removed"
    IN  /\ Answer("council", err)
        /\ UNCHANGED <<config, guild, now, tasks, issued, resolved, other>>
        /\ IF err # "removed" THEN UNCHANGED <<store, disk>>
           ELSE store' = Absent /\ disk' = [disk EXCEPT !.c = Absent]

\* a command in a channel that has no council: the handler answers so and
\* returns
NoCouncil(op) ==
    /\ store = Absent
    /\ Answer(op, "NoCouncil")
    /\ UNCHANGED <<store, disk, config, guild, now, tasks, issued, resolved, other>>

\* the guild changes the roles of member u: member.roles is read from the
\* guild whenever the code looks at it
member_update(u, roles) ==
    /\ u \in DOMAIN guild /\ guild[u] # roles
    /\ guild' = [guild EXCEPT ![u] = roles]
    /\ Answer("member_update", "")
    /\ UNCHANGED <<store, disk, config, now, tasks, issued, resolved, other>>

\* member u leaves the guild: guild.get_member(u) is None from now on
member_remove(u) ==
    /\ u \in DOMAIN guild
    /\ guild' = [v \in DOMAIN guild \ {u} |-> guild[v]]
    /\ Answer("member_remove", "")
    /\ UNCHANGED <<store, disk, config, now, tasks, issued, resolved, other>>

\* the process stops and starts again: Store.load reads the file, every
\* coroutine is gone
Restart ==
    /\ restarts < MaxRestarts
    /\ store' = disk.c
    /\ config' = disk.config
    /\ tasks' = [t \in Tasks |-> Idle]
    /\ Answer("restart", "loaded")
    /\ UNCHANGED <<disk, guild, now, issued, resolved, other>>

\* time passes
Tick ==
    /\ now < 1 + MaxTicks * DEFAULT_EXPIRATION_MINUTES
    /\ now' = now + DEFAULT_EXPIRATION_MINUTES
    /\ Answer("tick", "")
    /\ UNCHANGED <<store, disk, config, guild, tasks, issued, resolved, other>>

(***************************************************************************)
(* Spec: the lifecycle of motions under interleaved handlers.  Members 1   *)
(* and 2 are the councilors, so that with the default majority one yes of  *)
(* two eligible resolves the motion inside _cast.                          *)
(***************************************************************************)
Init == InitWith(RoleSet, {[m \in Members |-> IF m \in {1, 2} THEN {CouncilorRole} ELSE {}]})

Next ==
    \/ \E ti \in TitleInputs, tx \in Texts :
          store.next_motion_id <= MaxId /\ Propose(1, ti, tx, NoMajority)
    \/ Cast(2, "yes", "")
    \/ \E u \in {1, 2, 4} : Kill(u)
    \/ SetTitle(<<0, "A">>)
    \/ Config(4, "motion.queue", "true")
    \/ Sweep
    \/ \E t \in Tasks, ok \in BOOLEAN : ResumePostSend(t, ok)
    \/ \E t \in Tasks, ok \in BOOLEAN : ResumeLiveSend(t, ok)
    \/ \E t \in Tasks, ok \in BOOLEAN : ResumeThread(t, ok)
    \/ Tick

Spec == Init /\ [][Next]_vars

(***************************************************************************)
(* SpecVote: the votes on one motion.  Three or four councilors, members   *)
(* 1 to 3 vote, member 1's weight and majority.reached.ends may change.    *)
(***************************************************************************)
InitVote == InitWith(RoleSet, Rosters)

NextVote ==
    \/ \E mj \in MajorityInputs :
          store.next_motion_id <= MaxVoteId /\ Propose(1, NoTitle, "x", mj)
    \/ \E u \in {1, 2, 3}, ch \in Choices : Cast(u, ch, "")
    \/ SetWeight(4, 1, 2)
    \/ \E raw \in {"false", "$remove"} : Config(4, "majority.reached.ends", raw)
    \/ \E t \in Tasks, ok \in BOOLEAN : ResumePostSend(t, ok)
    \/ \E t \in Tasks, ok \in BOOLEAN : ResumeLiveSend(t, ok)
    \/ \E t \in Tasks, ok \in BOOLEAN : ResumeLiveEdit(t, ok)

SpecVote == InitVote /\ [][NextVote]_vars

(***************************************************************************)
(* SpecRestart: votes on one motion across restarts of the process.        *)
(***************************************************************************)
InitRestart == InitWith(RoleSet, {[m \in Members |-> {CouncilorRole}]})

NextRestart ==
    \/ store.next_motion_id <= MaxVoteId /\ Propose(1, NoTitle, "x", NoMajority)
    \/ \E u \in {1, 2}, ch \in {"yes", "no"} : Cast(u, ch, "")
    \/ \E t \in Tasks, ok \in BOOLEAN : ResumePostSend(t, ok)
    \/ \E t \in Tasks, ok \in BOOLEAN : ResumeLiveSend(t, ok)
    \/ \E t \in Tasks, ok \in BOOLEAN : ResumeLiveEdit(t, ok)
    \/ Restart

SpecRestart == InitRestart /\ [][NextRestart]_vars

(***************************************************************************)
(* SpecExpire: one motion that waits for its expiration.  Four councilors, *)
(* members 1 and 2 vote; under either majority no single vote resolves.    *)
(***************************************************************************)
InitExpire == InitWith(RoleSet, {[m \in Members |-> {CouncilorRole}]})

NextExpire ==
    \/ \E mj \in MajorityInputs :
          store.next_motion_id <= MaxExpireId /\ Propose(1, NoTitle, "x", mj)
    \/ \E u \in {1, 2}, ch \in Choices : Cast(u, ch, "")
    \/ SetWeight(4, 1, 2)
    \/ Sweep
    \/ \E t \in Tasks, ok \in BOOLEAN : ResumePostSend(t, ok)
    \/ \E t \in Tasks, ok \in BOOLEAN : ResumeLiveSend(t, ok)
    \/ \E t \in Tasks, ok \in BOOLEAN : ResumeLiveEdit(t, ok)
    \/ \E t \in Tasks, ok \in BOOLEAN : ResumeThread(t, ok)
    \/ Tick

SpecExpire == InitExpire /\ [][NextExpire]_vars

(***************************************************************************)
(* SpecQueue: motions created, queued and promoted while the expiration    *)
(* minutes and the default majority change.  Four councilors, the queue is *)
(* on, member 1 votes and, as the author, kills.                           *)
(***************************************************************************)
QueueOn == Put(RoleSet, "motion.queue", TRUE)

InitQueue == InitWith(QueueOn, {[m \in Members |-> {CouncilorRole}]})

NextQueue ==
    \/ \E mj \in MajorityInputs :
          store.next_motion_id <= MaxId /\ Propose(1, NoTitle, "x", mj)
    \/ Cast(1, "yes", "")
    \/ Kill(1)
    \/ \E raw \in {"10", "0", "10081"} : Config(4, "motion.expiration.minutes", raw)
    \/ Config(4, "majority.default", <<"2", "/", "3">>)
    \/ \E t \in Tasks, ok \in BOOLEAN : ResumePostSend(t, ok)
    \/ \E t \in Tasks, ok \in BOOLEAN : ResumeLiveSend(t, ok)
    \/ \E t \in Tasks, ok \in BOOLEAN : ResumeLiveEdit(t, ok)
    \/ \E t \in Tasks, ok \in BOOLEAN : ResumeThread(t, ok)

SpecQueue == InitQueue /\ [][NextQueue]_vars

(***************************************************************************)
(* SpecCouncils: one pass of the expiration loop over two councils.  The   *)
(* second council, which the loop reaches after the first, has a motion    *)
(* that member 1 proposed at time 1 and that expires with the first        *)
(* council's.                                                              *)
(***************************************************************************)
SecondCouncil ==
    propose(Council, RoleSet, [m \in Members |-> {CouncilorRole}],
            1, NoTitle, "x", NoMajority, 1).c

InitTwo == InitCouncils(RoleSet, {[m \in Members |-> {CouncilorRole}]}, SecondCouncil)

NextTwo ==
    \/ store.next_motion_id <= MaxExpireId /\ Propose(1, NoTitle, "x", NoMajority)
    \/ \E u \in {1, 2} : Cast(u, "yes", "")
    \/ Sweep
    \/ \E t \in Tasks, ok \in BOOLEAN : ResumePostSend(t, ok)
    \/ \E t \in Tasks, ok \in BOOLEAN : ResumeLiveSend(t, ok)
    \/ \E t \in Tasks, ok \in BOOLEAN : ResumeLiveEdit(t, ok)
    \/ \E t \in Tasks, ok \in BOOLEAN : ResumeThread(t, ok)
    \/ \E ok \in BOOLEAN : ResumeOtherSend(ok)
    \/ Tick

SpecCouncils == InitTwo /\ [][NextTwo]_vars

(***************************************************************************)
(* SpecReject: votes that _cast refuses.  Member 4 is a councilor or not,  *)
(* a reason may become required for /no, members 1 and 4 vote with a       *)
(* reason or without.                                                      *)
(***************************************************************************)
Reasons == {"", "r"}

InitReject == InitWith(RoleSet, Rosters)

NextReject ==
    \/ store.next_motion_id <= MaxVoteId /\ Propose(1, NoTitle, "x", NoMajority)
    \/ \E u \in {1, 4}, ch \in {"yes", "no"}, rs \in Reasons : Cast(u, ch, rs)
    \/ Config(4, "reason.required.no", "true")
    \/ \E t \in Tasks, ok \in BOOLEAN : ResumePostSend(t, ok)
    \/ \E t \in Tasks, ok \in BOOLEAN : ResumeLiveSend(t, ok)
    \/ \E t \in Tasks, ok \in BOOLEAN : ResumeLiveEdit(t, ok)

SpecReject == InitReject /\ [][NextReject]_vars

(***************************************************************************)
(* SpecWeights: the votes on one motion while weights and the roster       *)
(* change.  Four councilors; members 1 and 2 vote; member 1 gets an        *)
(* override of 3, the councilor role one of 1 and the senior role one of   *)
(* 2; member 1 gains the senior role or loses the councilor role, member   *)
(* 2 leaves the guild.                                                     *)
(***************************************************************************)
InitWeights == InitWith(RoleSet, {[m \in Members |-> {CouncilorRole}]})

NextWeights ==
    \/ store.next_motion_id <= MaxVoteId /\ Propose(1, NoTitle, "x", NoMajority)
    \/ Cast(1, "yes", "")
    \/ 2 \in DOMAIN guild /\ Cast(2, "no", "")
    \/ SetWeight(4, 1, 3)
    \/ SetWeight(4, CouncilorRole, 1)
    \/ SetWeight(4, SeniorRole, 2)
    \/ \E roles \in {{CouncilorRole, SeniorRole}, {SeniorRole}} : member_update(1, roles)
    \/ member_remove(2)
    \/ Sweep
    \/ \E t \in Tasks : ResumePostSend(t, TRUE)
    \/ \E t \in Tasks : ResumeLiveSend(t, TRUE)
    \/ \E t \in Tasks : ResumeLiveEdit(t, TRUE)
    \/ \E t \in Tasks : ResumeThread(t, TRUE)
    \/ Tick

SpecWeights == InitWeights /\ [][NextWeights]_vars

(***************************************************************************)
(* SpecParse: parse_majority on every text of up to MaxLen characters.     *)
(* The text is the council's majority.default, which /config stores as it  *)
(* is; a motion created without a majority takes it, and maybe_finish      *)
(* parses it after the vote of member 1.                                   *)
(***************************************************************************)
Alphabet == {"0", "1", "2", "/", "%", ".", "-", " "}
MajorityTexts == UNION {[1..n -> Alphabet] : n \in 0..MaxLen}

InitParse ==
    /\ \E s \in MajorityTexts :
          InitWith(Put(RoleSet, "majority.default", s),
                   {[m \in Members |-> {CouncilorRole}]})

NextParse ==
    \/ store.next_motion_id <= MaxVoteId /\ Propose(1, NoTitle, "x", NoMajority)
    \/ Cast(1, "yes", "")
    \/ \E t \in Tasks : ResumePostSend(t, TRUE)
    \/ \E t \in Tasks : ResumeLiveSend(t, TRUE)
    \/ \E t \in Tasks : ResumeLiveEdit(t, TRUE)
    \/ \E t \in Tasks : ResumeThread(t, TRUE)

SpecParse == InitParse /\ [][NextParse]_vars

(***************************************************************************)
(* SpecOrder: the order in which motions become current.  Members 1 and 2  *)
(* are the councilors, the queue is on at first and may be switched;       *)
(* member 1 proposes up to three motions, votes yes and kills, motions     *)
(* expire, and the announcement of a result may fail.                      *)
(***************************************************************************)
InitOrder ==
    InitWith(QueueOn, {[m \in Members |-> IF m \in {1, 2} THEN {CouncilorRole} ELSE {}]})

NextOrder ==
    \/ store.next_motion_id <= MaxOrderId /\ Propose(1, NoTitle, "x", NoMajority)
    \/ Cast(1, "yes", "")
    \/ Kill(1)
    \/ \E raw \in {"false", "true"} : Config(4, "motion.queue", raw)
    \/ Sweep
    \/ \E t \in Tasks, ok \in BOOLEAN : ResumePostSend(t, ok)
    \/ \E t \in Tasks : ResumeLiveSend(t, TRUE)
    \/ \E t \in Tasks : ResumeThread(t, TRUE)
    \/ Tick

SpecOrder == InitOrder /\ [][NextOrder]_vars

(***************************************************************************)
(* SpecEligible: who is a voter.  Four members, all councilors or all but  *)
(* member 4; councilor.role is removed, set to a role the guild does not   *)
(* have, or set back, while members 1 and 4 vote and the motion expires.   *)
(***************************************************************************)
InitEligible == InitWith(RoleSet, Rosters)

NextEligible ==
    \/ store.next_motion_id <= MaxVoteId /\ Propose(1, NoTitle, "x", NoMajority)
    \/ \E u \in {1, 4} : Cast(u, "yes", "")
    \/ \E raw \in {"$remove", "12", "10"} : Config(4, "councilor.role", raw)
    \/ Sweep
    \/ \E t \in Tasks : ResumePostSend(t, TRUE)
    \/ \E t \in Tasks : ResumeLiveSend(t, TRUE)
    \/ \E t \in Tasks : ResumeLiveEdit(t, TRUE)
    \/ \E t \in Tasks : ResumeThread(t, TRUE)
    \/ Tick

SpecEligible == InitEligible /\ [][NextEligible]_vars

(***************************************************************************)
(* SpecFrame: what changes the tally without a vote.  Four councilors;     *)
(* member 1 votes yes and member 2 no, then weights, majority.reached.ends *)
(* and the roster change under the recorded votes.                         *)
(***************************************************************************)
InitFrame == InitWith(RoleSet, {[m \in Members |-> {CouncilorRole}]})

NextFrame ==
    \/ store.next_motion_id <= MaxVoteId /\ Propose(1, NoTitle, "x", NoMajority)
    \/ Cast(1, "yes", "")
    \/ 2 \in DOMAIN guild /\ Cast(2, "no", "")
    \/ \E w \in {0, 3} : SetWeight(4, 1, w)
    \/ SetWeight(1, 1, 3)
    \/ \E raw \in {"false", "$remove"} : Config(4, "majority.reached.ends", raw)
    \/ member_update(3, {})
    \/ member_remove(2)
    \/ \E t \in Tasks : ResumePostSend(t, TRUE)
    \/ \E t \in Tasks : ResumeLiveSend(t, TRUE)
    \/ \E t \in Tasks : ResumeLiveEdit(t, TRUE)
    \/ \E t \in Tasks : ResumeThread(t, TRUE)

SpecFrame == InitFrame /\ [][NextFrame]_vars

(***************************************************************************)
(* SpecRemove: the council is removed while handlers are in flight.  The   *)
(* queue is on; member 1 proposes up to two motions and kills, an admin    *)
(* removes the council.  No council is created again.                      *)
(***************************************************************************)
InitRemove == InitWith(QueueOn, {[m \in Members |-> {CouncilorRole}]})

NextRemove ==
    \/ /\ store # Absent
       /\ store.next_motion_id <= MaxId
       /\ Propose(1, NoTitle, "x", NoMajority)
    \/ store # Absent /\ Kill(1)
    \/ \E op \in {"propose", "kill"} : NoCouncil(op)
    \/ \E u \in {1, 4} : CouncilRemove(u)
    \/ \E t \in Tasks, ok \in BOOLEAN : ResumePostSend(t, ok)
    \/ \E t \in Tasks, ok \in BOOLEAN : ResumeLiveSend(t, ok)
    \/ \E t \in Tasks, ok \in BOOLEAN : ResumeThread(t, ok)

SpecRemove == InitRemove /\ [][NextRemove]_vars

(***************************************************************************)
(* Properties.  A council is looked at where the program keeps it: in      *)
(* Store.data (store) and in the file (disk.c).                            *)
(***************************************************************************)
Kept == {store, disk.c}

\* the archived, current and queued motions of c, in that order
AllMotions(c) == c.motions \o c.current_motion \o c.motion_queue

\* how many motions of the sequence ms have status active
ActiveCount(ms) == Cardinality({i \in 1..Len(ms) : ms[i].status = "active"})

\* C1: at most one motion among the current, queued and archived motions of a
\* council has status active; a queued motion does not carry status active
C1_AtMostOneActive == \A c \in Kept : ActiveCount(AllMotions(c)) <= 1

\* C1, amended: at most one motion among the current and archived motions has
\* status active (the current one; archived motions are terminal), and every
\* motion waiting in the queue carries status active
C1_OneActiveOutsideQueue ==
    \A c \in Kept :
        /\ ActiveCount(c.motions \o c.current_motion) <= 1
        /\ \A i \in 1..Len(c.motions) : c.motions[i].status \in Terminal
        /\ \A i \in 1..Len(c.motion_queue) : c.motion_queue[i].status = "active"

\* C1 witness: a propose has queued a motion behind the current one, after
\* another motion was archived
C1_Witness ==
    /\ last = [op |-> "propose", err |-> "queued"]
    /\ \A c \in Kept : c.current_motion # <<>> /\ c.motion_queue # <<>>
    /\ resolved[1] > 0

\* C2: once the file has recorded a motion with a terminal status, the file
\* never again holds that motion (the one motion created under its id) as the
\* current motion with status active
C2_NoReturnToActive ==
    \A i \in 1..Len(disk.c.current_motion) :
        (disk.c.current_motion[i].status = "active"
            /\ issued[disk.c.current_motion[i].id] = 1)
        => resolved[disk.c.current_motion[i].id] = 0

\* C3: a motion (the one motion created under its id) leaves active at most
\* once: it is archived with a status and a resolution time at most one time
C3_ResolvedOnce == \A i \in 1..MaxId : issued[i] = 1 => resolved[i] <= 1

\* what castVote, propose and resolve commit of a motion and of a council
Entry(m) == [id |-> m.id, status |-> m.status, votes |-> m.votes]
Entries(ms) == [i \in 1..Len(ms) |-> Entry(ms[i])]
Committed(c) ==
    [archive |-> Entries(c.motions), current |-> Entries(c.current_motion),
     queue |-> Entries(c.motion_queue), next |-> c.next_motion_id]

\* C4: no committed update is lost: a handler that resumes from an await and
\* writes its council to the file holds the votes, the current, queued and
\* archived motions and the next motion id that the file holds at that moment
C4_NoStaleWrite ==
    [][\A t \in Tasks :
          (tasks[t].pc # "idle" /\ tasks'[t] # tasks[t] /\ disk' # disk)
          => Committed(JsonCouncil(tasks[t].c)) = Committed(disk.c)]_vars

\* C5: ids are given in strictly increasing order and never twice: a motion
\* is created under id i only when no motion was created under i or above
C5_IdsIncrease ==
    [][\A i \in 1..MaxId :
          issued'[i] # issued[i] => \A j \in i..MaxId : issued[j] = 0]_vars

\* C6: the titles of the current, queued and archived motions of a council
\* are pairwise distinct: two motions of different ids never share a title
C6_TitlesDistinct ==
    \A c \in Kept : \A i, j \in 1..Len(AllMotions(c)) :
        AllMotions(c)[i].id # AllMotions(c)[j].id
        => AllMotions(c)[i].title # AllMotions(c)[j].title

\* the title ti is the title of an archived, current or queued motion of c
TitleTaken(c, ti) == \E i \in 1..Len(AllMotions(c)) : AllMotions(c)[i].title = ti

\* C7: a propose whose supplied title is the title of a current, queued or
\* archived motion leaves the council unchanged (no motion added, the next
\* motion id and the proposed count as they were) and, its text given, is
\* answered with the title conflict
C7_TitleConflictRejected ==
    [][\A ti \in TitleInputs, tx \in Texts :
          (ti # NoTitle /\ TitleTaken(store, ti) /\ Propose(1, ti, tx, NoMajority))
          => /\ UNCHANGED <<store, disk, tasks, issued>>
             /\ tx # "" => last'.err = "TitleConflict"]_vars

\* C7 witness: a propose was answered with the title conflict while its title
\* is the title of an archived motion
C7_Witness ==
    /\ last = [op |-> "propose", err |-> "TitleConflict"]
    /\ \E i \in 1..Len(store.motions) : store.motions[i].title \in TitleInputs

\* the weighted votes for choice ch on motion m of council c, by voter id
Weighted(m, c, ch) ==
    SumOver([u \in Members |-> vote_weight_for(c, guild, u)],
            {u \in Members : IntKey(u) \in DOMAIN m.votes /\ m.votes[IntKey(u)] = ch})

\* the eligible roster members, floored at 1
EligibleCount == Floor1(Cardinality({u \in Members : CouncilorRole \in guild[u]}))

\* the status the rule of early resolution gives, in exact arithmetic, for the
\* threshold t.n / t.d
ExactOutcome(yes, no, e, t) ==
    IF yes * t.d >= t.n * e THEN "passed"
    ELSE IF no * t.d >= (t.d - t.n) * e THEN "failed"
    ELSE "active"

\* the motion a vote was recorded on: still current, or archived last
VotedMotion(c) ==
    IF c.current_motion # <<>> THEN c.current_motion[1] ELSE c.motions[Len(c.motions)]

\* C8: with early resolution enabled, after a vote is recorded the motion is
\* passed exactly when yes / eligible >= threshold, failed exactly when that
\* does not hold and no / eligible >= 1 - threshold, and active otherwise
C8_EarlyResolution ==
    [][(last'.op = "cast" /\ last'.err = "ok"
           /\ Get(config, "majority.reached.ends", TRUE))
       => VotedMotion(store').status =
             ExactOutcome(Weighted(VotedMotion(store'), store', "yes"),
                          Weighted(VotedMotion(store'), store', "no"),
                          EligibleCount,
                          parse_majority(VotedMotion(store').majority))]_vars

\* 4 eligible voters of weight 1
FourVoters ==
    /\ \A u \in Members : CouncilorRole \in guild[u]
    /\ store.vote_weights = EmptyDict

YesVotes(m) == Cardinality({k \in DOMAIN m.votes : m.votes[k] = "yes"})

\* C9: with 4 eligible voters of weight 1 and majority "1/2", the third yes
\* vote is the one that resolves the motion: no motion is passed on fewer
\* than three yes votes
C9_ThirdVoteResolves ==
    FourVoters =>
        \A i \in 1..Len(store.motions) :
            (store.motions[i].status = "passed"
                /\ store.motions[i].majority = <<"1", "/", "2">>)
            => YesVotes(store.motions[i]) >= 3

\* C9, amended: with 4 eligible voters of weight 1, majority "1/2" and early
\* resolution enabled, the motion is passed immediately after the vote that
\* leaves it with two yes votes (2/4 >= 1/2, the boundary included), and a
\* vote cast when no motion is current is refused and changes nothing
C9_SecondVoteResolves ==
    [][(FourVoters /\ last'.op = "cast")
       => IF store.current_motion = <<>>
          THEN last'.err = "NoActiveMotion" /\ UNCHANGED <<store, disk>>
          ELSE (/\ last'.err = "ok"
                /\ Get(config, "majority.reached.ends", TRUE)
                /\ store.current_motion[1].majority = <<"1", "/", "2">>
                /\ YesVotes(VotedMotion(store')) >= 2)
               => (/\ store'.current_motion = <<>>
                   /\ VotedMotion(store').status = "passed"
                   /\ VotedMotion(store').id = store.current_motion[1].id)]_vars

\* C9 witness: members 1 and 2 have voted yes, nobody else has voted, and the
\* vote cast last archived the motion as passed
C9_Witness ==
    /\ FourVoters
    /\ last = [op |-> "cast", err |-> "ok"]
    /\ store.current_motion = <<>> /\ store.motions # <<>>
    /\ VotedMotion(store).status = "passed"
    /\ VotedMotion(store).majority = <<"1", "/", "2">>
    /\ VotedMotion(store).votes = [k \in {IntKey(1), IntKey(2)} |-> "yes"]

\* the entries voter u has in the votes of m
EntriesOf(m, u) == {k \in DOMAIN m.votes : k[2] = u}

\* C10: the votes of a motion hold one entry per voter: an accepted vote
\* leaves the voter with one entry, the choice just cast, and adds 1 to the
\* voter's voted count when the voter had no entry on the motion and 0 when
\* the voter had one
C10_OneEntryPerVoter ==
    [][\A u \in {1, 2}, ch \in {"yes", "no"} :
          (Cast(u, ch, "") /\ last'.err = "ok")
          => /\ Cardinality(EntriesOf(VotedMotion(store'), u)) = 1
             /\ \A k \in EntriesOf(VotedMotion(store'), u) :
                   VotedMotion(store').votes[k] = ch
             /\ Get(store'.voted_count, u, 0) =
                   Get(store.voted_count, u, 0)
                   + (IF EntriesOf(store.current_motion[1], u) = {} THEN 1 ELSE 0)]_vars

\* the outcome of comparing the raw weighted yes and no
RawOutcome(yes, no) ==
    IF yes > no THEN "passed" ELSE IF no > yes THEN "failed" ELSE "tied"

\* C11: when the expiration loop resolves the current motion, the outcome is
\* decided by weighted yes against weighted no alone: passed when yes > no,
\* failed when no > yes, tied when they are equal, whatever the majority
C11_ExpirationByRawTally ==
    [][(last'.op = "sweep" /\ last'.err = "resolved")
       => /\ store'.current_motion = <<>>
          /\ VotedMotion(store').id = store.current_motion[1].id
          /\ VotedMotion(store').status =
                RawOutcome(Weighted(store.current_motion[1], store, "yes"),
                           Weighted(store.current_motion[1], store, "no"))]_vars

\* C11 witness: the expiration loop has passed a motion on one yes vote of
\* weight 1 among four eligible, below either majority
C11_Witness ==
    /\ last = [op |-> "sweep", err |-> "resolved"]
    /\ VotedMotion(store).status = "passed"
    /\ Weighted(VotedMotion(store), store, "yes") = 1
    /\ Weighted(VotedMotion(store), store, "no") = 0
    /\ EligibleCount = 4

\* the motion archived last in the council a task holds
LastArchived(c) == c.motions[Len(c.motions)]

\* C12: a kill leaves every miss streak as it was before the kill: the kill
\* itself writes the streaks it found to Store.data and to the file, and the
\* rest of its resolve call writes no other streaks than those
C12_KillKeepsStreaks ==
    [][/\ (last'.op = "kill" /\ last'.err = "ok")
          => /\ store'.miss_streak = store.miss_streak
             /\ disk'.c.miss_streak = store.miss_streak
             /\ \A t \in Tasks : tasks'[t] # tasks[t]
                   => tasks'[t].c.miss_streak = store.miss_streak
       /\ \A t \in Tasks :
             (/\ tasks[t].pc = "post_send" /\ tasks'[t] # tasks[t]
              /\ LastArchived(tasks[t].c).status = "killed")
             => store'.miss_streak \in {store.miss_streak, tasks[t].c.miss_streak}]_vars

\* C12 witness: a kill has succeeded in a council where a member has a miss
\* streak above 0
C12_Witness ==
    /\ last = [op |-> "kill", err |-> "ok"]
    /\ LastArchived(store).status = "killed"
    /\ \E u \in DOMAIN store.miss_streak : store.miss_streak[u] > 0

\* a step that resolves the current motion by early majority or by expiration
ResolvesByVoteOrExpiry ==
    \/ last'.op = "sweep" /\ last'.err = "resolved"
    \/ last'.op = "cast" /\ last'.err = "ok" /\ store'.current_motion = <<>>

MayKill(c, u) ==
    c.current_motion # <<>> /\ (u = c.current_motion[1].author_id \/ u \in Admins)

\* C20: a kill by the author of the current motion or by an admin archives
\* the motion with status killed and a resolution time and empties the current
\* slot; a kill by anyone else, or with no current motion, is answered with an
\* error and leaves the council unchanged
C20_KillByAuthorOrAdmin ==
    [][\A u \in {1, 2, 4} :
          Kill(u)
          => IF MayKill(store, u)
             THEN /\ last'.err = "ok"
                  /\ store'.current_motion = <<>>
                  /\ store'.motions =
                        Append(store.motions,
                               [store.current_motion[1] EXCEPT
                                   !.status = "killed", !.finished_at = now])
                  /\ store'.motion_queue = store.motion_queue
                  /\ disk'.c = JsonCouncil(store')
             ELSE /\ last'.err \in {"NoActiveMotion", "Unauthorized"}
                  /\ UNCHANGED <<store, disk, tasks, resolved>>]_vars

\* C20 witness: member 2, a councilor who is neither the author nor an admin,
\* was refused while a motion is current
C20_Witness ==
    /\ last = [op |-> "kill", err |-> "Unauthorized"]
    /\ store.current_motion # <<>>
    /\ store.motions # <<>> /\ LastArchived(store).status = "killed"

\* task t is at the sends of _resolve_post_actions and this step resumes it
ResumesPostSend(t) == tasks[t].pc = "post_send" /\ tasks'[t] # tasks[t]

\* the council a resolve call holds has a motion to promote
HasQueued(t) == Get(config, "motion.queue", FALSE) /\ tasks[t].c.motion_queue # <<>>

\* C14: when a resolve call goes on after announcing the result, with
\* motion.queue on and a non-empty queue, the head of the queue becomes the
\* current motion and the rest of the queue keeps its order
C14_QueueHeadPromoted ==
    [][\A t \in Tasks :
          (ResumesPostSend(t) /\ HasQueued(t))
          => /\ store'.current_motion = <<Head(tasks[t].c.motion_queue)>>
             /\ store'.motion_queue = Tail(tasks[t].c.motion_queue)]_vars

\* no handler, and no pass of the expiration loop, is under way
AllIdle == \A t \in Tasks : tasks[t].pc = "idle"

\* C16: when every operation has finished, the file holds the council as
\* Store.data holds it, miss streaks included
C16_FileHoldsEveryChange ==
    AllIdle => disk.c = JsonCouncil(store) /\ disk.config = config

\* C17: when announcing the result raises, the resolution stays in Store.data
\* and in the file, and the head of a non-empty queue is still promoted
C17_FailedAnnounceStillPromotes ==
    [][\A t \in Tasks :
          (ResumesPostSend(t) /\ last'.err = "raised")
          => /\ store'.motions = store.motions
             /\ disk'.c.motions = disk.c.motions
             /\ HasQueued(t) => store'.current_motion = <<Head(tasks[t].c.motion_queue)>>]_vars

\* what a motion is created with: its id, expiration time and majority string
Fixed(m) == <<m.id, m.expires_at, m.majority>>

\* the Fixed triples of the motions of council c
FixedOf(c) == {Fixed(AllMotions(c)[i]) : i \in 1..Len(AllMotions(c))}

\* the Fixed triples of every motion Store.data, the file or a handler holds
FixedNow == FixedOf(store) \cup FixedOf(disk.c) \cup UNION {FixedOf(tasks[t].c) : t \in Tasks}

\* the Fixed triples a /motion new of this moment can create
FixedNew ==
    {<<store.next_motion_id, ExpiresAt(config, now), MajorityOf(config, mj)>> :
        mj \in MajorityInputs}

\* C15: the expiration time and the majority string of a motion are those of
\* its creation: no step (vote, queueing, promotion, kill, a later change of
\* motion.expiration.minutes or majority.default) gives a motion an expiration
\* time or a majority it did not have, and a creating /motion new adds exactly
\* the values the configuration of that moment gives
C15_ExpiryAndMajorityFixed ==
    [][FixedNow' \subseteq
          FixedNow \cup (IF last'.op = "propose" /\ last'.err \in {"created", "queued"}
                         THEN FixedNew ELSE {})]_vars

\* C15 witness: a motion created under the default expiration and majority
\* was promoted from the queue after both settings were changed, and still
\* carries the values of its creation
C15_Witness ==
    /\ last = [op |-> "post_send", err |-> "promoted"]
    /\ Get(config, "motion.expiration.minutes", DEFAULT_EXPIRATION_MINUTES) = 10
    /\ Get(config, "majority.default", <<>>) = <<"2", "/", "3">>
    /\ store.current_motion # <<>>
    /\ store.current_motion[1].expires_at = 1 + DEFAULT_EXPIRATION_MINUTES
    /\ store.current_motion[1].majority = <<"1", "/", "2">>

\* the expiration loop is suspended in a send for the first council
NotifierPending == tasks[Sched].pc \in {"post_send", "live_send", "thread"}

\* C18: when a send for the first council raises inside the expiration loop,
\* the same pass goes on to the second council and resolves its expired motion
C18_PassGoesOnAfterError ==
    [][(/\ NotifierPending
        /\ tasks'[Sched] # tasks[Sched]
        /\ last'.err = "raised" /\ last'.op # "thread"
        /\ Expired(other, now))
       => other'.current_motion = <<>>]_vars

\* C19: while a send for the first council has not returned, the expiration
\* loop can still take a step, so that the expired motion of the second
\* council is resolved without waiting for that send
C19_OtherCouncilsProceed ==
    (NotifierPending /\ Expired(other, now)) => ENABLED Sweep

\* C21: a propose made while a motion is current and motion.queue is off,
\* with a text and a title no motion carries, is answered QueueDisabled and
\* leaves Store.data and the file as they were: the queue stays empty, the
\* current motion, next_motion_id and proposed_count are untouched
C21_QueueDisabledChangesNothing ==
    [][\A ti \in TitleInputs :
          (/\ Propose(1, ti, "x", NoMajority)
           /\ store.current_motion # <<>>
           /\ ~Get(config, "motion.queue", FALSE)
           /\ (ti = NoTitle \/ _title_unique(store, ti)))
          => /\ last'.err = "QueueDisabled"
             /\ UNCHANGED <<store, disk, tasks, issued>>]_vars

\* C21 witness: a propose was answered QueueDisabled; motion 1 is current, the
\* queue is empty, the next id is 2 and member 1 has proposed once
C21_Witness ==
    /\ last = [op |-> "propose", err |-> "QueueDisabled"]
    /\ \A c \in Kept :
          /\ c.current_motion # <<>> /\ c.current_motion[1].id = 1
          /\ c.motion_queue = <<>>
          /\ c.next_motion_id = 2
          /\ Get(c.proposed_count, 1, 0) = 1

\* the votes _cast refuses
Rejected(u, ch, rs) ==
    \/ store.current_motion = <<>>
    \/ CouncilorRole \notin guild[u]
    \/ Get(config, "reason.required." \o ch, FALSE) /\ rs = ""

\* the motions of c that are current or archived
Voted(c) == Range(c.current_motion) \cup Range(c.motions)

\* C22: a vote cast with no current motion, by a member without the councilor
\* role, or without the reason its choice requires is answered with an error
\* and leaves the council unchanged (votes, reasons, voted_count, miss_streak,
\* status); every other vote is recorded
C22_RejectedVoteChangesNothing ==
    [][\A u \in {1, 4}, ch \in {"yes", "no"}, rs \in Reasons :
          Cast(u, ch, rs)
          => IF Rejected(u, ch, rs)
             THEN /\ last'.err \in {"NoActiveMotion", "Unauthorized", "ReasonRequired"}
                  /\ UNCHANGED <<store, disk, config, tasks, resolved>>
             ELSE /\ last'.err = "ok"
                  /\ \E m \in Voted(store') : Get(m.votes, IntKey(u), "") = ch]_vars

\* C22 witness: a /no without a reason was refused while a motion with a
\* recorded vote is current
C22_Witness ==
    /\ last = [op |-> "cast", err |-> "ReasonRequired"]
    /\ store.current_motion # <<>>
    /\ store.current_motion[1].votes # EmptyDict
    /\ store.current_motion[1].status = "active"

\* the weight member u has now: the member's override, else the sum of the
\* overrides of the roles the member holds now, else 1
CurrentWeight(c, u) ==
    IF u \in DOMAIN c.vote_weights THEN c.vote_weights[u]
    ELSE IF guild[u] \cap DOMAIN c.vote_weights # {}
    THEN SumOver(c.vote_weights, guild[u] \cap DOMAIN c.vote_weights)
    ELSE 1

\* the votes for ch on m of the members in S, each at its current weight
SumNow(m, c, ch, S) ==
    SumOver([u \in S |-> CurrentWeight(c, u)],
            {u \in S : Get(m.votes, IntKey(u), "") = ch})

\* the members of the guild, and those of them who hold the councilor role
Present == DOMAIN guild
Roster == {u \in DOMAIN guild : CouncilorRole \in guild[u]}

\* C23: every tally weighs each recorded vote by the weight the voter has at
\* that moment (override, else sum of the role overrides, else 1): the outcome
\* of an expiration and the outcome of the maybe_finish after a vote are those
\* of the sums at current weights
C23_WeightAtTallyTime ==
    [][/\ (last'.op = "sweep" /\ last'.err = "resolved")
          => LastArchived(store').status =
                RawOutcome(SumNow(store.current_motion[1], store, "yes", Present),
                           SumNow(store.current_motion[1], store, "no", Present))
       /\ (last'.op = "cast" /\ last'.err = "ok")
          => VotedMotion(store').status =
                ExactOutcome(SumNow(VotedMotion(store'), store', "yes", Present),
                             SumNow(VotedMotion(store'), store', "no", Present),
                             Floor1(Cardinality(Roster)),
                             parse_majority(VotedMotion(store').majority))]_vars

\* C23 witness: the motion expired as passed on the yes of member 1 against
\* the no of member 2.  Member 1 has no override of its own and outweighs
\* member 2 by the sum of two role overrides; had it held that weight when
\* the second of the two votes was cast, that vote would have ended the motion
C23_Witness ==
    /\ last = [op |-> "sweep", err |-> "resolved"]
    /\ LastArchived(store).status = "passed"
    /\ LastArchived(store).votes = (IntKey(1) :> "yes") @@ (IntKey(2) :> "no")
    /\ 1 \notin DOMAIN store.vote_weights
    /\ guild[1] = {CouncilorRole, SeniorRole}
    /\ {CouncilorRole, SeniorRole} \subseteq DOMAIN store.vote_weights
    /\ 2 \in Roster

\* C24: the vote of a member who has left the guild or no longer holds the
\* councilor role counts for nothing: an expired motion is resolved on the
\* sums of the votes of the roster alone
C24_OnlyRosterCounts ==
    [][(last'.op = "sweep" /\ last'.err = "resolved")
       => /\ LastArchived(store').status =
                RawOutcome(SumNow(store.current_motion[1], store, "yes", Roster),
                           SumNow(store.current_motion[1], store, "no", Roster))
          /\ LastArchived(store').votes = store.current_motion[1].votes]_vars

\* C25: /config motion.expiration.minutes accepts 0 and every integer from 1
\* to 10080 and stores it; any other value is refused and the configuration,
\* in Store.data and in the file, stays as it was
C25_MinutesZeroAccepted ==
    [][\A raw \in {"10", "0", "10081"} :
          Config(4, "motion.expiration.minutes", raw)
          => IF raw \in {"10", "0"}
             THEN /\ last'.err = "set"
                  /\ Get(config', "motion.expiration.minutes", "") =
                        ConfigValue("motion.expiration.minutes", raw)
                  /\ disk'.config = config'
             ELSE /\ last'.err = "BadMinutes"
                  /\ UNCHANGED <<config, disk>>]_vars

\* two parsed numbers are the same rational
SameNumber(x, y) == x.k = "num" /\ y.k = "num" /\ x.n * y.d = y.n * x.d

\* the value the three rules give the stripped text s: p/100 for "p%", a/b for
\* "a/b", the decimal itself, each clamped to [0, 1]; 1/2 when a number does
\* not parse or the denominator is zero
RuleValue(s, slash) ==
    IF s # <<>> /\ s[Len(s)] = "%"
    THEN IF PyFloat(SubSeq(s, 1, Len(s) - 1)).ok
         THEN Clamp(FDiv(PyFloat(SubSeq(s, 1, Len(s) - 1)).v, Num(100, 1)))
         ELSE Half
    ELSE IF slash # 0
    THEN IF /\ PyFloat(SubSeq(s, 1, slash - 1)).ok
            /\ PyFloat(SubSeq(s, slash + 1, Len(s))).ok
            /\ Truthy(PyFloat(SubSeq(s, slash + 1, Len(s))).v)
         THEN Clamp(FDiv(PyFloat(SubSeq(s, 1, slash - 1)).v,
                         PyFloat(SubSeq(s, slash + 1, Len(s))).v))
         ELSE Half
    ELSE IF PyFloat(s).ok THEN Clamp(PyFloat(s).v) ELSE Half

\* parse_majority(s) is a number in [0, 1] and the one the rules give
ParsedByRule(s) ==
    /\ parse_majority(s).k = "num"
    /\ 0 <= parse_majority(s).n /\ parse_majority(s).n <= parse_majority(s).d
    /\ SameNumber(parse_majority(s), RuleValue(Strip(s), IndexFrom(Strip(s), "/", 1)))

\* C26: for the majority text of every motion, parse_majority returns a value
\* in [0, 1]: a/b, p/100 or the decimal, clamped, and 1/2 for a malformed
\* text, a zero denominator included
C26_ParseMajority ==
    \A i \in 1..Len(AllMotions(store)) : ParsedByRule(AllMotions(store)[i].majority)

\* the current motion of c has an expiration time that is not after now
Due(c) ==
    /\ c.current_motion # <<>>
    /\ c.current_motion[1].expires_at # None
    /\ c.current_motion[1].expires_at <= now

OneVoteWritten(v, w) ==
    \E k \in DOMAIN w :
       /\ DOMAIN w = DOMAIN v \cup {k}
       /\ \A j \in DOMAIN v \ {k} : w[j] = v[j]

\* C29: while majority.reached.ends is false, an accepted vote is recorded on
\* the current motion and the motion stays the current one with status
\* "active", whatever the tally; nothing is archived
C29_SwitchOffKeepsActive ==
    [][(last'.op = "cast" /\ last'.err = "ok"
           /\ ~Get(config, "majority.reached.ends", TRUE))
       => /\ store.current_motion # <<>> /\ store'.current_motion # <<>>
          /\ store'.current_motion[1].id = store.current_motion[1].id
          /\ store'.current_motion[1].status = "active"
          /\ store'.current_motion[1].finished_at = store.current_motion[1].finished_at
          /\ OneVoteWritten(store.current_motion[1].votes,
                            store'.current_motion[1].votes)
          /\ store'.motions = store.motions
          /\ disk'.c.motions = disk.c.motions]_vars

\* C29 witness: the switch is off, a vote has been recorded and the motion is
\* active with a tally that would have resolved it
C29_Witness ==
    /\ last = [op |-> "cast", err |-> "ok"]
    /\ ~Get(config, "majority.reached.ends", TRUE)
    /\ store.current_motion # <<>>
    /\ store.current_motion[1].status = "active"
    /\ ExactOutcome(Weighted(store.current_motion[1], store, "yes"),
                    Weighted(store.current_motion[1], store, "no"),
                    EligibleCount,
                    parse_majority(store.current_motion[1].majority)) = "passed"

\* C30: a motion becomes the current one only when no motion with a smaller
\* id, proposed before it, waits in the queue
C30_QueueOrderKept ==
    [][(/\ store'.current_motion # <<>>
        /\ \/ store.current_motion = <<>>
           \/ store.current_motion[1].id # store'.current_motion[1].id)
       => \A i \in 1..Len(store'.motion_queue) :
             store'.motion_queue[i].id > store'.current_motion[1].id]_vars

\* C31: in the council as stored and as written to the file, every archived
\* motion has a terminal status and a resolution time, the current motion has
\* status "active" and no resolution time, and no id is carried by two of the
\* archived, current and queued motions
C31_AggregateWellFormed ==
    \A c \in Kept :
        /\ \A i \in 1..Len(c.motions) :
              c.motions[i].status \in Terminal /\ c.motions[i].finished_at # None
        /\ \A i \in 1..Len(c.current_motion) :
              /\ c.current_motion[i].status = "active"
              /\ c.current_motion[i].finished_at = None
        /\ \A i, j \in 1..Len(AllMotions(c)) :
              AllMotions(c)[i].id = AllMotions(c)[j].id => i = j

\* C31 witness: a motion is archived, the one promoted after it is current
\* and a third waits in the queue
C31_Witness ==
    /\ last = [op |-> "post_send", err |-> "promoted"]
    /\ \A c \in Kept :
          c.motions # <<>> /\ c.current_motion # <<>> /\ c.motion_queue # <<>>

\* the members _cast accepts a vote from
Voters == {u \in DOMAIN guild : MayVote(config, guild, u)}

\* C32: under every setting of councilor.role the members who may vote are
\* the members counted as eligible by maybe_finish and the members whose
\* miss streak a resolution updates
C32_SameEligibility ==
    /\ Voters = EligibleFinish(config, guild)
    /\ Voters = EligibleStreak(config, guild)

\* the archived, current and queued motions of c with their statuses
Places(c) ==
    [archive |-> c.motions, current |-> c.current_motion, queue |-> c.motion_queue]

\* C33: /setweight, /config and a change of the roster leave the archived,
\* the current and the queued motions, their statuses included, as they are,
\* in Store.data and in the file
C33_OnlyVotesResolveEarly ==
    [][last'.op \in {"setweight", "config", "member_update", "member_remove"}
       => /\ Places(store') = Places(store)
          /\ Places(disk'.c) = Places(disk.c)]_vars

\* C33 witness: a weight was set, and the current motion is active under a
\* tally that passes the test of maybe_finish
C33_Witness ==
    /\ last = [op |-> "setweight", err |-> "ok"]
    /\ store.current_motion # <<>>
    /\ store.current_motion[1].status = "active"
    /\ EarlyOutcome(store.current_motion[1], store, config, guild) = "passed"

\* C34: the status of every archived, current and queued motion, in
\* Store.data and in the file, is one of active, passed, failed, killed and
\* tied, never "expired"; the motion a pass of the expiration loop has
\* resolved is passed, failed or tied
C34_NoExpiredStatus ==
    /\ \A c \in Kept : \A i \in 1..Len(AllMotions(c)) :
          AllMotions(c)[i].status \in {"active"} \cup Terminal
    /\ last = [op |-> "sweep", err |-> "resolved"]
          => LastArchived(store).status \in {"passed", "failed", "tied"}

\* C34 witness: after a killed motion, the expiration loop has resolved the
\* next one
C34_Witness ==
    /\ last = [op |-> "sweep", err |-> "resolved"]
    /\ Len(store.motions) = 2
    /\ store.motions[1].status = "killed"
    /\ store.motions[2].finished_at > store.motions[1].finished_at

\* C35: once /council action:remove has deleted the council, Store.data and
\* the file hold no council for the channel: no handler that was in flight
\* puts one back
C35_RemovedStaysRemoved ==
    [][/\ store = Absent => store' = Absent
       /\ disk.c = Absent => disk'.c = Absent]_vars

\* C36: Store.load after a restart gives the council that was saved: the
\* votes on the current motion are keyed by the voters' ids as before, so the
\* tally of the current motion is the one it had before the restart
C36_RestartKeepsVotes ==
    [][(last'.op = "restart" /\ store.current_motion # <<>>)
       => /\ store'.current_motion # <<>>
          /\ store'.current_motion[1].votes = store.current_motion[1].votes
          /\ tallies(store'.current_motion[1], store', guild)
                = tallies(store.current_motion[1], store, guild)]_vars

====
